---- MODULE Spec2Model ----
(***************************************************************************)
(* Disease spread simulation (src/main.py): a population of agents walking *)
(* in an arena cut by a river with one bridge, infecting each other by     *)
(* proximity and at food points, recovering and dying by per-tick trials.  *)
(*                                                                         *)
(* Geometry is scaled down (the source arena is 800 x 600); coordinates    *)
(* and velocities are integers, the draws of random.uniform / randint are  *)
(* taken from small sample sets, probabilities are per mille, and a        *)
(* Bernoulli trial is a nondeterministic boolean restricted by whether     *)
(* its probability is 0 or 1.                                              *)
(***************************************************************************)
EXTENDS Integers, Sequences, FiniteSets, TLC

\* ---------------------------------------------------------------- bounds
\* Scaled arena (source: WIDTH, HEIGHT = 800, 600).
WIDTH == 6
HEIGHT == 5
\* Scaled river and bridge (source: RIVER_WIDTH 100, BRIDGE_Y 250, BRIDGE_HEIGHT 100).
RIVER_WIDTH == 2
BRIDGE_Y == 1
BRIDGE_HEIGHT == 1
\* Scaled infection radius (source: 10).
INFECTION_RADIUS == 2
\* Scaled frame rate (source: 30), which scales the stuck threshold.
FPS == 1
\* Scaled number of food points (source: 5).
NUM_FOOD_ITEMS == 1
\* Number of iterations of the main loop a run is followed for.
MaxTicks == 2

\* ------------------------------------------------------ program constants
\* STUCK_TIME_SECONDS = 1.5, counted in half seconds.
STUCK_TIME_HALF_SECONDS == 3
\* FOOD_INFECTION_PROBABILITY = 0.15, per mille.
FOOD_INFECTION_PROBABILITY == 150
\* The food-pick probability 0.002 of the main loop, per mille.
FOOD_PICK_PROBABILITY == 2
\* INFECTION_RATE = 0.9, RECOVERY_RATE = 0.01, MORTALITY_RATE = 0.002, per mille.
SRC_INFECTION_RATE == 900
SRC_RECOVERY_RATE == 10
SRC_MORTALITY_RATE == 2

RIVER_X == WIDTH \div 2 - 1
BRIDGE_RECT == <<RIVER_X, BRIDGE_Y, RIVER_WIDTH, BRIDGE_HEIGHT>>
\* Twice STUCK_FRAMES_THRESHOLD = STUCK_TIME_SECONDS * FPS (a float in the source).
STUCK_FRAMES_THRESHOLD_X2 == STUCK_TIME_HALF_SECONDS * FPS

None == <<>>
Statuses == {"healthy", "infected", "recovered", "dead"}

VARIABLES
    population,          \* sequence of Person records
    food_items,          \* sequence of food points <<x, y>>
    POPULATION_SIZE, INITIAL_INFECTED,
    INFECTION_RATE, RECOVERY_RATE, MORTALITY_RATE,   \* per mille
    ALLOW_REINFECTION,
    healthy_count, infected_count, recovered_count, dead_count,
    pc,                  \* position of the main loop
    person,              \* index of the person the update loop is at
    i, j,                \* indices of the pair the infection scan is at
    infect_calls,        \* the infect() calls of the last step: <<index, status before>>
    near_and_drawn,      \* value of the condition of line 232 for the last pair
    last_move,           \* the branches the last move() took
    scan_start,          \* the statuses when the infection checks of this iteration began
    tick                 \* iterations of the main loop begun

config == <<POPULATION_SIZE, INITIAL_INFECTED, INFECTION_RATE, RECOVERY_RATE,
            MORTALITY_RATE, ALLOW_REINFECTION>>
counts == <<healthy_count, infected_count, recovered_count, dead_count>>
vars == <<population, food_items, config, counts, pc, person, i, j,
          infect_calls, near_and_drawn, last_move, scan_start, tick>>

\* ------------------------------------------------------------ randomness
\* Bernoulli with `<=` for `<`: random() can return 0.0.
Bernoulli_le(p) == {b \in BOOLEAN : ~b => p < 1000}

\* Outcomes of `random.random() < p` for p per mille: random() is in [0, 1).
Bernoulli(p) == {b \in BOOLEAN : (b => p > 0) /\ (~b => p < 1000)}

\* Samples of the pair of draws (random.uniform(-2, 2), random.uniform(-2, 2)).
Velocities == {<<1, -2>>, <<-2, 1>>}

\* Samples of random.randint(0, WIDTH) and random.randint(0, HEIGHT).
RandintXSamples == {RIVER_X - 1, RIVER_X + 1}
RandintYSamples == {0, BRIDGE_Y + 1}

\* ---------------------------------------------------------------- geometry
in_river(x) == RIVER_X <= x /\ x <= RIVER_X + RIVER_WIDTH

in_bridge(x, y) ==
    /\ BRIDGE_RECT[1] <= x /\ x <= BRIDGE_RECT[1] + BRIDGE_RECT[3]
    /\ BRIDGE_RECT[2] <= y /\ y <= BRIDGE_RECT[2] + BRIDGE_RECT[4]

\* The points random_position_outside_river() can return: the draws it accepts.
random_position_outside_river ==
    {pt \in RandintXSamples \X RandintYSamples :
        ~in_river(pt[1]) \/ in_bridge(pt[1], pt[2])}

\* ---------------------------------------------------------------- arithmetic
\* math.hypot(dx, dy) squared.
hypot2(dx, dy) == dx * dx + dy * dy

\* floor(10 * sqrt(d2)): the distance in tenths.
Dist10(d2) == CHOOSE r \in 0..(10 * (2 * (WIDTH + HEIGHT) + 8)) :
                  r * r <= 100 * d2 /\ 100 * d2 < (r + 1) * (r + 1)

\* n / d rounded to the nearest integer, halves away from zero (d > 0).
Round(n, d) == IF n < 0 THEN -((2 * (-n) + d) \div (2 * d))
               ELSE (2 * n + d) \div (2 * d)

\* (dx / dist) * 1.5 on the integer grid.
Toward(dx, d2) == Round(15 * dx, Dist10(d2))

\* ---------------------------------------------------------------- Person
\* Person.__init__ at position pt with velocity v.
NewPerson(pt, v) ==
    [x |-> pt[1], y |-> pt[2], vx |-> v[1], vy |-> v[2], status |-> "healthy",
     time_infected |-> 0, target_food |-> None, stuck_frames |-> 0]

\* infect with the toggle guarding the healthy branch too.
infect_healthy_under_toggle(p, allow) ==
    IF allow /\ p.status \in {"healthy", "recovered"}
    THEN [p EXCEPT !.status = "infected", !.time_infected = 0]
    ELSE p

\* infect testing only for "not dead": an infected person is infected again.
infect_again(p, allow) ==
    IF p.status \in {"healthy", "infected"} \/ (allow /\ p.status = "recovered")
    THEN [p EXCEPT !.status = "infected", !.time_infected = 0]
    ELSE p

\* infect without the toggle.
infect_ignoring_toggle(p, allow) ==
    IF p.status \in {"healthy", "recovered"}
    THEN [p EXCEPT !.status = "infected", !.time_infected = 0]
    ELSE p

\* infect testing only for "not infected yet": a dead person is infected too.
infect_unless_infected(p, allow) ==
    IF p.status = "healthy" \/ p.status = "dead"
    THEN [p EXCEPT !.status = "infected", !.time_infected = 0]
    ELSE IF allow /\ p.status = "recovered"
    THEN [p EXCEPT !.status = "infected", !.time_infected = 0]
    ELSE p

\* infect without line 151: the infection duration is not reset.
infect_keeps_duration(p, allow) ==
    IF p.status = "healthy"
    THEN [p EXCEPT !.status = "infected"]
    ELSE IF allow /\ p.status = "recovered"
    THEN [p EXCEPT !.status = "infected"]
    ELSE p

\* Person.infect.
infect(p, allow) ==
    IF p.status = "healthy"
    THEN [p EXCEPT !.status = "infected", !.time_infected = 0]
    ELSE IF allow /\ p.status = "recovered"
    THEN [p EXCEPT !.status = "infected", !.time_infected = 0]
    ELSE p

\* food_step without line 88: the target is kept on arrival.
food_step_keeps_target(p, trial) ==
    LET dx == p.target_food[1] - p.x
        dy == p.target_food[2] - p.y
        d2 == hypot2(dx, dy)
    IN  IF d2 < 4
        THEN [p EXCEPT !.status = IF @ = "healthy" /\ trial THEN "infected" ELSE @]
        ELSE [p EXCEPT !.x = @ + Toward(dx, d2), !.y = @ + Toward(dy, d2)]

\* Person.move, lines 83-95: the step toward the food target; `trial` is the
\* food infection draw.
food_step(p, trial) ==
    LET dx == p.target_food[1] - p.x
        dy == p.target_food[2] - p.y
        d2 == hypot2(dx, dy)
    IN  IF d2 < 4
        THEN [p EXCEPT !.target_food = None,
                       !.status = IF @ = "healthy" /\ trial THEN "infected" ELSE @]
        ELSE [p EXCEPT !.x = @ + Toward(dx, d2), !.y = @ + Toward(dy, d2)]

\* The food infection draw is made only for a healthy agent that has arrived.
food_trials(p) ==
    IF /\ p.status = "healthy"
       /\ hypot2(p.target_food[1] - p.x, p.target_food[2] - p.y) < 4
    THEN Bernoulli(FOOD_INFECTION_PROBABILITY)
    ELSE {FALSE}

\* Person.move, lines 96-99: random movement.
free_step(p) == [p EXCEPT !.x = @ + p.vx, !.y = @ + p.vy]

\* Person.move, lines 101-105: bounce off screen edges.
bounce(p) ==
    [p EXCEPT !.vx = IF p.x <= 0 \/ p.x >= WIDTH THEN -@ ELSE @,
              !.vy = IF p.y <= 0 \/ p.y >= HEIGHT THEN -@ ELSE @]

\* Person.move, lines 107-117: in the river and not on the bridge.
blocked(p) == in_river(p.x) /\ ~in_bridge(p.x, p.y)

\* revert redrawing the velocity without restoring the position.
revert_velocity_only(p, old, v) == [p EXCEPT !.vx = v[1], !.vy = v[2]]

revert(p, old, v) ==
    [p EXCEPT !.x = old.x, !.y = old.y, !.vx = v[1], !.vy = v[2]]

\* Person.move, lines 119-124: stuck detection (hypot < 0.1).
stuck_check(p, old) ==
    [p EXCEPT !.stuck_frames =
        IF 100 * hypot2(p.x - old.x, p.y - old.y) < 1 THEN @ + 1 ELSE 0]

\* move without the test of lines 77-78.
never_returns_early(p) == FALSE

\* Person.move, lines 77-78: a dead person does not move.
returns_early(p) == p.status = "dead"

\* Person.move up to the respawn test: the persons it can leave.
move(p) ==
    IF returns_early(p) THEN {p}
    ELSE LET stepped == IF p.target_food # None
                        THEN {food_step(p, t) : t \in food_trials(p)}
                        ELSE {free_step(p)}
             bounced == {bounce(q) : q \in stepped}
             settled == UNION {IF blocked(q)
                               THEN {revert(q, p, v) : v \in Velocities}
                               ELSE {q} : q \in bounced}
         IN  {stuck_check(q, p) : q \in settled}

\* Person.move, line 127.
stuck_too_long(p) == 2 * p.stuck_frames > STUCK_FRAMES_THRESHOLD_X2

\* The branches move() takes from p: how it steps, and whether the step is
\* reverted at the river (the position after the step does not depend on a draw).
move_branches(p) ==
    IF returns_early(p)
    THEN [kind |-> "dead", reverted |-> FALSE, respawned |-> FALSE]
    ELSE IF p.target_food = None
    THEN [kind |-> "free", reverted |-> blocked(free_step(p)), respawned |-> FALSE]
    ELSE [kind |-> IF hypot2(p.target_food[1] - p.x, p.target_food[2] - p.y) < 4
                   THEN "arrived" ELSE "toward",
          reverted |-> blocked(food_step(p, FALSE)), respawned |-> FALSE]

\* respawn without the reset of the stuck timer.
respawn_keeps_stuck(p, pt, v) ==
    [p EXCEPT !.x = pt[1], !.y = pt[2], !.vx = v[1], !.vy = v[2]]

\* respawn that also drops the food target.
respawn_clears_target(p, pt, v) ==
    [p EXCEPT !.x = pt[1], !.y = pt[2], !.vx = v[1], !.vy = v[2],
              !.stuck_frames = 0, !.target_food = None]

\* Person.respawn at point pt with velocity v.
respawn(p, pt, v) ==
    [p EXCEPT !.x = pt[1], !.y = pt[2], !.vx = v[1], !.vy = v[2], !.stuck_frames = 0]

\* update_status whose recovery leads back to "healthy".
update_status_to_healthy(p, recovery, mortality) ==
    IF p.status = "infected"
    THEN LET q == [p EXCEPT !.time_infected = @ + 1]
         IN  {[q EXCEPT !.status = "healthy"] : r \in {b \in Bernoulli(recovery) : b}}
             \cup UNION {{[q EXCEPT !.status = IF m THEN "dead" ELSE @] :
                              m \in Bernoulli(mortality)} :
                          r \in {b \in Bernoulli(recovery) : ~b}}
    ELSE {p}

\* update_status with `if` for `elif`: the mortality draw is made after a
\* recovery too.
update_status_if_for_elif(p, recovery, mortality) ==
    IF p.status = "infected"
    THEN LET q == [p EXCEPT !.time_infected = @ + 1]
         IN  UNION {{[q EXCEPT !.status = IF m THEN "dead"
                                          ELSE IF r THEN "recovered" ELSE @] :
                         m \in Bernoulli(mortality)} :
                     r \in Bernoulli(recovery)}
    ELSE {p}

\* Person.update_status: the persons it can leave.
update_status(p, recovery, mortality) ==
    IF p.status = "infected"
    THEN LET q == [p EXCEPT !.time_infected = @ + 1]
         IN  {[q EXCEPT !.status = "recovered"] : r \in {b \in Bernoulli(recovery) : b}}
             \cup UNION {{[q EXCEPT !.status = IF m THEN "dead" ELSE @] :
                              m \in Bernoulli(mortality)} :
                          r \in {b \in Bernoulli(recovery) : ~b}}
    ELSE {p}

\* The food pick without the test `person.target_food is None`.
pick_food_untested(p, foods) ==
    {[p EXCEPT !.target_food = IF pick THEN foods[f] ELSE @] :
        pick \in Bernoulli(FOOD_PICK_PROBABILITY), f \in 1..Len(foods)}

\* Lines 207-208: the targets the food pick can leave a person with.
pick_food(p, foods) ==
    {[p EXCEPT !.target_food = IF pick /\ @ = None THEN foods[f] ELSE @] :
        pick \in Bernoulli(FOOD_PICK_PROBABILITY), f \in 1..Len(foods)}

\* tally with `if` for the first `elif`: a dead person falls through to the
\* final else as well.
tally_if_for_elif(s, c) ==
    LET d == IF s = "dead" THEN [c EXCEPT ![4] = @ + 1] ELSE c
    IN  IF s = "infected" THEN [d EXCEPT ![2] = @ + 1]
        ELSE IF s = "recovered" THEN [d EXCEPT ![3] = @ + 1]
        ELSE [d EXCEPT ![1] = @ + 1]

\* Lines 211-222: the counts <<healthy, infected, recovered, dead>> after a
\* person of status s is counted.
tally(s, c) ==
    IF s = "dead" THEN [c EXCEPT ![4] = @ + 1]
    ELSE IF s = "infected" THEN [c EXCEPT ![2] = @ + 1]
    ELSE IF s = "recovered" THEN [c EXCEPT ![3] = @ + 1]
    ELSE [c EXCEPT ![1] = @ + 1]

\* infection_check on the statuses as they were when the checks began.
infection_check_snapshot(p1, p2, a, b, allow) ==
    LET call2 == scan_start[a] = "infected"
        q2 == IF call2 THEN infect(p2, allow) ELSE p2
        call1 == scan_start[b] = "infected"
        q1 == IF call1 THEN infect(p1, allow) ELSE p1
    IN  [p1 |-> q1, p2 |-> q2,
         calls |-> (IF call2 THEN << <<b, p2.status>> >> ELSE <<>>)
                   \o (IF call1 THEN << <<a, p1.status>> >> ELSE <<>>)]

\* infection_check without lines 236-237: only the lower index infects.
infection_check_one_way(p1, p2, a, b, allow) ==
    LET call2 == p1.status = "infected"
    IN  [p1 |-> p1, p2 |-> IF call2 THEN infect(p2, allow) ELSE p2,
         calls |-> IF call2 THEN << <<b, p2.status>> >> ELSE <<>>]

\* Lines 233-237: infect the other if one is infected. The persons the check
\* leaves and the infect() calls it makes, each <<index, status before>>.
infection_check(p1, p2, a, b, allow) ==
    LET call2 == p1.status = "infected"
        q2 == IF call2 THEN infect(p2, allow) ELSE p2
        call1 == q2.status = "infected"
        q1 == IF call1 THEN infect(p1, allow) ELSE p1
    IN  [p1 |-> q1, p2 |-> q2,
         calls |-> (IF call2 THEN << <<b, p2.status>> >> ELSE <<>>)
                   \o (IF call1 THEN << <<a, p1.status>> >> ELSE <<>>)]

\* The condition of line 232 without the distance test.
close_enough_any(p1, p2) == TRUE

\* Lines 231-232: the pair is close enough.
close_enough(p1, p2) ==
    hypot2(p1.x - p2.x, p1.y - p2.y) < INFECTION_RADIUS * INFECTION_RADIUS

\* Samples of the food points (randint(50, WIDTH - 50), randint(50, HEIGHT - 50)),
\* the margin scaled to 1.
FoodPoints == {RIVER_X + 1} \X {1, HEIGHT - 1}

\* ------------------------------------------------------------ construction
\* Lines 164-166: the population, its first `infected` persons infected.
Population(pts, vs, infected, allow) ==
    [k \in DOMAIN pts |->
        IF k <= infected THEN infect(NewPerson(pts[k], vs[k]), allow)
        ELSE NewPerson(pts[k], vs[k])]

\* The main loop is about to begin its first iteration.
Started ==
    /\ healthy_count = 0 /\ infected_count = 0
    /\ recovered_count = 0 /\ dead_count = 0
    /\ pc = "begin" /\ person = 1 /\ i = 1 /\ j = 2
    /\ infect_calls = <<>> /\ near_and_drawn = FALSE
    /\ last_move = [kind |-> "none", reverted |-> FALSE, respawned |-> FALSE]
    /\ scan_start = <<>>
    /\ tick = 0

\* What a run starts with besides the configuration.
Constructed ==
    /\ \E pts \in [1..POPULATION_SIZE -> random_position_outside_river],
          vs \in [1..POPULATION_SIZE -> Velocities] :
          population = Population(pts, vs, INITIAL_INFECTED, ALLOW_REINFECTION)
    /\ food_items \in [1..NUM_FOOD_ITEMS -> FoodPoints]
    /\ Started

\* A run of two persons with the given rates, for either value of the
\* reinfection toggle.
Configured(infection, recovery, mortality) ==
    /\ POPULATION_SIZE = 2
    /\ INITIAL_INFECTED \in {0, 1}
    /\ INFECTION_RATE = infection
    /\ RECOVERY_RATE = recovery
    /\ MORTALITY_RATE = mortality
    /\ ALLOW_REINFECTION \in BOOLEAN
    /\ Constructed

\* The source's rates.
Init == Configured(SRC_INFECTION_RATE, SRC_RECOVERY_RATE, SRC_MORTALITY_RATE)

\* INFECTION_RATE = 1.0: the draw of line 232 always succeeds.
InitCertain == Configured(1000, SRC_RECOVERY_RATE, SRC_MORTALITY_RATE)

\* INFECTION_RATE, RECOVERY_RATE and MORTALITY_RATE all 0.
InitZero == Configured(0, 0, 0)

\* A run of three persons, the first infected or nobody, that recover and die
\* with probability 0; the persons start with the same velocity draw and the
\* food lies at one point.
InitWide ==
    /\ POPULATION_SIZE = 3
    /\ INITIAL_INFECTED \in {0, 1}
    /\ INFECTION_RATE = SRC_INFECTION_RATE
    /\ RECOVERY_RATE = 0
    /\ MORTALITY_RATE = 0
    /\ ALLOW_REINFECTION = TRUE
    /\ \E pts \in [1..POPULATION_SIZE -> random_position_outside_river],
          v \in Velocities :
          population = Population(pts, [k \in 1..POPULATION_SIZE |-> v],
                                  INITIAL_INFECTED, ALLOW_REINFECTION)
    /\ food_items = [k \in 1..NUM_FOOD_ITEMS |-> <<RIVER_X + 1, 1>>]
    /\ Started

\* A run of two persons with one food item more, the items lying in turn at the
\* two food points; nobody recovers or dies.
InitFoods ==
    /\ POPULATION_SIZE = 2
    /\ INITIAL_INFECTED = 1
    /\ INFECTION_RATE = SRC_INFECTION_RATE
    /\ RECOVERY_RATE = 0
    /\ MORTALITY_RATE = 0
    /\ ALLOW_REINFECTION = TRUE
    /\ \E pts \in [1..POPULATION_SIZE -> random_position_outside_river],
          vs \in [1..POPULATION_SIZE -> Velocities] :
          population = Population(pts, vs, INITIAL_INFECTED, ALLOW_REINFECTION)
    /\ food_items = [k \in 1..(NUM_FOOD_ITEMS + 1) |->
                        <<RIVER_X + 1, IF k % 2 = 1 THEN 1 ELSE HEIGHT - 1>>]
    /\ Started

\* ------------------------------------------------------------- main loop
\* Lines 178-199 (and 239-254 of the iteration before): a new iteration begins.
BeginTick ==
    /\ pc = "begin" /\ tick < MaxTicks
    /\ tick' = tick + 1
    /\ healthy_count' = 0 /\ infected_count' = 0
    /\ recovered_count' = 0 /\ dead_count' = 0
    /\ person' = 1 /\ pc' = "move"
    /\ infect_calls' = <<>>
    /\ scan_start' = <<>>
    /\ UNCHANGED <<population, food_items, config, i, j, near_and_drawn, last_move>>

\* Line 203: person.move(), up to the respawn test.
Move ==
    /\ pc = "move"
    /\ \E q \in move(population[person]) :
          /\ population' = [population EXCEPT ![person] = q]
          /\ pc' = IF ~returns_early(population[person]) /\ stuck_too_long(q)
                   THEN "respawn" ELSE "update_status"
    /\ last_move' = move_branches(population[person])
    /\ infect_calls' = <<>>
    /\ UNCHANGED <<food_items, config, counts, person, i, j, near_and_drawn,
                   scan_start, tick>>

\* Line 128: self.respawn(), the end of person.move().
Respawn ==
    /\ pc = "respawn"
    /\ \E pt \in random_position_outside_river, v \in Velocities :
          population' = [population EXCEPT ![person] = respawn(@, pt, v)]
    /\ pc' = "update_status"
    /\ last_move' = [last_move EXCEPT !.respawned = TRUE]
    /\ UNCHANGED <<food_items, config, counts, person, i, j, infect_calls,
                   near_and_drawn, scan_start, tick>>

\* Line 204: person.update_status().
UpdateStatus ==
    /\ pc = "update_status"
    /\ \E q \in update_status(population[person], RECOVERY_RATE, MORTALITY_RATE) :
          population' = [population EXCEPT ![person] = q]
    /\ pc' = "pick_food"
    /\ UNCHANGED <<food_items, config, counts, person, i, j, infect_calls,
                   near_and_drawn, last_move, scan_start, tick>>

\* Lines 207-208: randomly pick a food target sometimes.
PickFood ==
    /\ pc = "pick_food"
    /\ \E q \in pick_food(population[person], food_items) :
          population' = [population EXCEPT ![person] = q]
    /\ pc' = "count"
    /\ UNCHANGED <<food_items, config, counts, person, i, j, infect_calls,
                   near_and_drawn, last_move, scan_start, tick>>

\* Lines 211-222: the person is counted under its status; then the next person,
\* or the infection checks (line 227), or the next iteration.
Count ==
    /\ pc = "count"
    /\ LET c == tally(population[person].status, counts)
       IN  /\ healthy_count' = c[1] /\ infected_count' = c[2]
           /\ recovered_count' = c[3] /\ dead_count' = c[4]
    /\ IF person < POPULATION_SIZE
       THEN person' = person + 1 /\ pc' = "move" /\ UNCHANGED <<i, j, scan_start>>
       ELSE /\ person' = person
            /\ i' = 1 /\ j' = 2
            /\ scan_start' = [k \in DOMAIN population |-> population[k].status]
            /\ pc' = IF POPULATION_SIZE >= 2 THEN "scan" ELSE "begin"
    /\ UNCHANGED <<population, food_items, config, infect_calls, near_and_drawn,
                   last_move, tick>>

\* Lines 229-237: the infection check of the pair (i, j); then the next pair.
ScanPair ==
    /\ pc = "scan"
    /\ LET p1 == population[i]
           p2 == population[j]
       IN  \E drawn \in (IF close_enough(p1, p2) THEN Bernoulli(INFECTION_RATE)
                         ELSE {FALSE}) :
              LET r == infection_check(p1, p2, i, j, ALLOW_REINFECTION)
              IN  /\ population' = IF drawn
                                   THEN [population EXCEPT ![i] = r.p1, ![j] = r.p2]
                                   ELSE population
                  /\ infect_calls' = IF drawn THEN r.calls ELSE <<>>
                  /\ near_and_drawn' = drawn
    /\ IF j < POPULATION_SIZE
       THEN i' = i /\ j' = j + 1 /\ pc' = "scan"
       ELSE IF i + 1 < POPULATION_SIZE
       THEN i' = i + 1 /\ j' = i + 2 /\ pc' = "scan"
       ELSE i' = i /\ j' = j /\ pc' = "begin"
    /\ UNCHANGED <<food_items, config, counts, person, last_move, scan_start, tick>>

Next ==
    \/ BeginTick
    \/ Move
    \/ Respawn
    \/ UpdateStatus
    \/ PickFood
    \/ Count
    \/ ScanPair

Spec == Init /\ [][Next]_vars
SpecCertain == InitCertain /\ [][Next]_vars
SpecZero == InitZero /\ [][Next]_vars
SpecWide == InitWide /\ [][Next]_vars
SpecFoods == InitFoods /\ [][Next]_vars

\* ------------------------------------------------------------------ claims
People == DOMAIN population
Called == {infect_calls[n] : n \in DOMAIN infect_calls}

\* C1: the four counts sum to the population size once the update loop of an
\* iteration has counted everyone (and, while it runs, to the number of persons
\* counted so far), in every iteration.
C1_CountsSumToPopulation ==
    LET sum == healthy_count + infected_count + recovered_count + dead_count
    IN  /\ (tick > 0 /\ pc \in {"scan", "begin"}) => sum = POPULATION_SIZE
        /\ pc \in {"move", "respawn", "update_status", "pick_food", "count"}
              => sum = person - 1

C1_Witness ==
    /\ pc = "begin" /\ tick >= 2
    /\ dead_count = 1 /\ recovered_count = 1

\* C2: once a person is dead, no step changes its status or its position.
C2_DeadIsAbsorbing ==
    [][\A k \in People :
          population[k].status = "dead"
          => /\ population'[k].status = "dead"
             /\ population'[k].x = population[k].x
             /\ population'[k].y = population[k].y]_vars

\* move() has been called on the dead first person.
C2_Witness ==
    /\ pc = "update_status" /\ person = 1
    /\ last_move.kind = "dead" /\ population[1].status = "dead"

\* C3: in every reachable state no person is inside the river band without
\* being inside the bridge rectangle.
C3_NeverInRiverOffBridge ==
    \A k \in People :
        LET p == population[k]
        IN  (RIVER_X <= p.x /\ p.x <= RIVER_X + RIVER_WIDTH)
            => (BRIDGE_Y <= p.y /\ p.y <= BRIDGE_Y + BRIDGE_HEIGHT)

\* A step toward a food point lying in the river off the bridge was reverted.
C3_Witness ==
    /\ pc = "update_status"
    /\ last_move.kind = "toward" /\ last_move.reverted
    /\ LET f == population[person].target_food
       IN  f # None /\ in_river(f[1]) /\ ~in_bridge(f[1], f[2])

\* C4: every infect() call on a healthy person leaves it infected with
\* infection duration 0, for either value of the reinfection toggle.
C4_InfectHealthy ==
    [][\A n \in DOMAIN infect_calls' :
          LET k == infect_calls'[n][1]
          IN  infect_calls'[n][2] = "healthy"
              => /\ population[k].status = "healthy"
                 /\ population'[k].status = "infected"
                 /\ population'[k].time_infected = 0]_vars

\* infect() was called on a healthy person with reinfection disabled.
C4_Witness ==
    /\ ~ALLOW_REINFECTION
    /\ \E c \in Called : c[2] = "healthy" /\ population[c[1]].status = "infected"

\* C5: an infect() call on an infected or dead person, or on a recovered one
\* with reinfection disabled, changes nothing of the person.
C5_InfectNoOp ==
    [][\A n \in DOMAIN infect_calls' :
          LET k == infect_calls'[n][1]
              was == infect_calls'[n][2]
          IN  (was \in {"infected", "dead"}
                  \/ (was = "recovered" /\ ~ALLOW_REINFECTION))
              => /\ population[k].status = was
                 /\ population'[k] = population[k]]_vars

\* infect() was called on a person infected for some ticks already.
C5_Witness ==
    \E c \in Called : c[2] = "infected" /\ population[c[1]].time_infected > 0

\* C6: with reinfection disabled a recovered person keeps that status in every
\* step; a recovered person leaves that status only with reinfection enabled,
\* only to infected, and only by an infect() call of the scan.
C6_RecoveredPolicy ==
    [][\A k \in People :
          (population[k].status = "recovered"
              /\ population'[k].status # "recovered")
          => /\ ALLOW_REINFECTION
             /\ population'[k].status = "infected"
             /\ \E n \in DOMAIN infect_calls' :
                   infect_calls'[n] = <<k, "recovered">>]_vars

\* With reinfection enabled, infect() has made a recovered person infected.
C6_Witness ==
    /\ ALLOW_REINFECTION
    /\ \E c \in Called : c[2] = "recovered" /\ population[c[1]].status = "infected"

\* C7: move() of a person that is not dead sets the stuck counter to 0 if the
\* displacement from the tick-start position to the final position is >= 0.1
\* and increments it otherwise; the respawn follows exactly when the counter
\* exceeds the threshold, happens once and resets the counter, so outside
\* that respawn no stuck counter exceeds the threshold.
C7_StuckCounter ==
    [][/\ (pc = "move" /\ population[person].status # "dead")
          => LET p == population[person]
                 q == population'[person]
             IN  /\ q.stuck_frames =
                       IF 100 * ((q.x - p.x) * (q.x - p.x)
                                 + (q.y - p.y) * (q.y - p.y)) < 1
                       THEN p.stuck_frames + 1 ELSE 0
                 /\ (pc' = "respawn")
                       <=> (2 * q.stuck_frames > STUCK_TIME_HALF_SECONDS * FPS)
       /\ pc = "respawn"
          => /\ pc' = "update_status"
             /\ population'[person].stuck_frames = 0
       /\ pc' # "respawn"
          => \A k \in People :
                2 * population'[k].stuck_frames <= STUCK_TIME_HALF_SECONDS * FPS]_vars

\* The respawn of a stuck person has happened.
C7_Witness ==
    /\ pc = "update_status" /\ last_move.respawned
    /\ population[person].stuck_frames = 0

\* C8: when the pair at the scan is close enough and the draw succeeds (as it
\* always does at infection rate 1.0), a healthy person of the pair whose
\* partner is infected is infected after the pair's evaluation, whichever of
\* the two has the lower index.
C8_ScanInfects ==
    [][pc = "scan"
       => LET p1 == population[i]
              p2 == population[j]
              near == (p1.x - p2.x) * (p1.x - p2.x) + (p1.y - p2.y) * (p1.y - p2.y)
                          < INFECTION_RADIUS * INFECTION_RADIUS
          IN  (near_and_drawn' \/ (near /\ INFECTION_RATE = 1000))
              => /\ (p1.status = "infected" /\ p2.status = "healthy")
                       => population'[j].status = "infected"
                 /\ (p2.status = "infected" /\ p1.status = "healthy")
                       => population'[i].status = "infected"]_vars

\* The healthy first person was infected by the second.
C8_Witness ==
    /\ INFECTION_RATE = 1000
    /\ infect_calls = << <<1, "healthy">> >>
    /\ population[1].status = "infected"

\* C9 (as claimed): with the three rates 0 the population stays partitioned as
\* seeded: the first INITIAL_INFECTED persons infected, the others healthy.
C9_PartitionAsSeeded ==
    (INFECTION_RATE = 0 /\ RECOVERY_RATE = 0 /\ MORTALITY_RATE = 0)
    => \A k \in People :
          population[k].status =
              IF k <= INITIAL_INFECTED THEN "infected" ELSE "healthy"

\* C9 (amended): with the three rates 0 the only status change is that of a
\* healthy person becoming infected in the move() in which it arrives at its
\* food target; no infected person leaves that status.
C9_OnlyFoodInfects ==
    [][(INFECTION_RATE = 0 /\ RECOVERY_RATE = 0 /\ MORTALITY_RATE = 0)
       => \A k \in People :
             population'[k].status # population[k].status
             => /\ pc = "move" /\ k = person
                /\ last_move'.kind = "arrived"
                /\ population[k].status = "healthy"
                /\ population'[k].status = "infected"]_vars

\* With the three rates 0, a person that was not seeded is infected.
C9_Witness ==
    /\ INFECTION_RATE = 0 /\ RECOVERY_RATE = 0 /\ MORTALITY_RATE = 0
    /\ \E k \in People :
          k > INITIAL_INFECTED /\ population[k].status = "infected"

\* C10 (as claimed): every person's position is within [0, WIDTH] x [0, HEIGHT].
C10_InArena ==
    \A k \in People :
        /\ 0 <= population[k].x /\ population[k].x <= WIDTH
        /\ 0 <= population[k].y /\ population[k].y <= HEIGHT


\* The number of persons of status s among the statuses f.
Census(f, s) == Cardinality({k \in DOMAIN f : f[k] = s})
Statuses_now == [k \in People |-> population[k].status]

\* C11: the counts an iteration reports are taken after its infection checks:
\* when the iteration ends, each count equals the number of persons of that
\* status at that moment, those infected by the iteration's checks included.
C11_CountsAfterScan ==
    (pc = "begin" /\ tick > 0)
    => /\ healthy_count = Census(Statuses_now, "healthy")
       /\ infected_count = Census(Statuses_now, "infected")
       /\ recovered_count = Census(Statuses_now, "recovered")
       /\ dead_count = Census(Statuses_now, "dead")


\* The person p after one more infected iteration, left with status s.
Progressed(p, s) == [p EXCEPT !.time_infected = @ + 1, !.status = s]

\* C12: update_status leaves a person that is not infected as it is; for an
\* infected person it adds exactly 1 to the infection duration and makes at
\* most one transition: to recovered if the recovery draw succeeds (whatever the
\* mortality rate), else to dead if the mortality draw succeeds, else none.
\* Position, velocity, stuck counter and food target are never changed.
C12_UpdateStatus ==
    /\ [](\A k \in People :
            LET p == population[k]
            IN  IF p.status = "infected"
                THEN /\ update_status(p, 1000, 1000) = {Progressed(p, "recovered")}
                     /\ update_status(p, 1000, 0) = {Progressed(p, "recovered")}
                     /\ update_status(p, 0, 1000) = {Progressed(p, "dead")}
                     /\ update_status(p, 0, 0) = {Progressed(p, "infected")}
                     /\ update_status(p, RECOVERY_RATE, MORTALITY_RATE)
                           \subseteq {Progressed(p, s) :
                                         s \in {"infected", "recovered", "dead"}}
                ELSE \A r, m \in {0, RECOVERY_RATE, MORTALITY_RATE, 1000} :
                        update_status(p, r, m) = {p})
    /\ [][pc = "update_status" =>
            LET p == population[person]
                q == population'[person]
            IN  /\ \A k \in People \ {person} : population'[k] = population[k]
                /\ p.status # "infected" => q = p
                /\ p.status = "infected" =>
                      q \in {Progressed(p, s) :
                                s \in {"infected", "recovered", "dead"}}]_vars

C12_Witness ==
    /\ pc = "pick_food"
    /\ population[person].status = "recovered"
    /\ population[person].time_infected = 2
    /\ \E k \in People : population[k].status = "healthy"


\* C13: whenever a person becomes infected, by infect() in the infection checks,
\* at construction, as a reinfection, or on arriving at food, its infection
\* duration is 0 right after; while it stays infected the duration grows by
\* exactly 1 with each update_status and with nothing else; it is never negative.
C13_InfectionDuration ==
    /\ [](\A k \in People :
            /\ population[k].time_infected >= 0
            /\ (tick = 0 /\ population[k].status = "infected")
                  => population[k].time_infected = 0)
    /\ [][\A k \in People :
            LET p == population[k]
                q == population'[k]
            IN  /\ (p.status # "infected" /\ q.status = "infected")
                      => q.time_infected = 0
                /\ (p.status = "infected" /\ q.status = "infected")
                      => q.time_infected =
                           IF pc = "update_status" /\ person = k
                           THEN p.time_infected + 1 ELSE p.time_infected]_vars

C13_Witness ==
    /\ INITIAL_INFECTED = 0
    /\ pc = "update_status" /\ last_move.kind = "arrived"
    /\ population[person].status = "infected"
    /\ population[person].time_infected = 0


\* C14: when move() of a person that is not dead and has a food target starts
\* less than 2 from the target, the target is cleared and the person does not
\* step; its status changes only if it is healthy (to infected, when the food
\* draw succeeds), so a recovered or infected person arriving keeps its status,
\* with reinfection allowed too. At 2 or more the target and the status are kept.
C14_FoodArrival ==
    [][(/\ pc = "move"
        /\ population[person].status # "dead"
        /\ population[person].target_food # None) =>
          LET p == population[person]
              q == population'[person]
              d2 == (p.target_food[1] - p.x) * (p.target_food[1] - p.x)
                    + (p.target_food[2] - p.y) * (p.target_food[2] - p.y)
          IN  IF d2 < 2 * 2
              THEN /\ q.target_food = None
                   /\ q.x = p.x /\ q.y = p.y
                   /\ q.status = p.status
                      \/ (p.status = "healthy" /\ q.status = "infected")
              ELSE /\ q.target_food = p.target_food
                   /\ q.status = p.status]_vars

C14_Witness ==
    /\ ALLOW_REINFECTION
    /\ pc = "update_status" /\ last_move.kind = "arrived"
    /\ population[person].status = "recovered"
    /\ population[person].target_food = None


\* C15: a respawn changes only position, velocity and stuck counter of the
\* person respawned: its status, infection duration and food target are what
\* they were, nobody else changes, and the new position is a valid spawn point
\* (in the arena, and not in the river band unless on the bridge).
C15_RespawnFrame ==
    [][pc = "respawn" =>
          LET p == population[person]
              q == population'[person]
          IN  /\ q.status = p.status
              /\ q.time_infected = p.time_infected
              /\ q.target_food = p.target_food
              /\ \A k \in People \ {person} : population'[k] = population[k]
              /\ 0 <= q.x /\ q.x <= WIDTH /\ 0 <= q.y /\ q.y <= HEIGHT
              /\ (RIVER_X <= q.x /\ q.x <= RIVER_X + RIVER_WIDTH)
                    => (BRIDGE_Y <= q.y /\ q.y <= BRIDGE_Y + BRIDGE_HEIGHT)]_vars

C15_Witness ==
    /\ pc = "update_status" /\ last_move.respawned
    /\ population[person].target_food # None
    /\ population[person].status = "infected"
    /\ population[person].time_infected > 0


FoodItems == {food_items[n] : n \in DOMAIN food_items}

\* C16: a food target is only assigned to a person that has none, and it is one
\* of the food items: a person's target changes only from none to a food item
\* (in the food pick of that person) or from a food item to none (on arrival in
\* its move()); a target that is set is never replaced by another food item.
C16_FoodTarget ==
    /\ [](\A k \in People : population[k].target_food \in FoodItems \cup {None})
    /\ [][\A k \in People :
            LET p == population[k]
                q == population'[k]
            IN  \/ q.target_food = p.target_food
                \/ /\ p.target_food = None /\ q.target_food \in FoodItems
                   /\ pc = "pick_food" /\ person = k
                \/ /\ p.target_food \in FoodItems /\ q.target_food = None
                   /\ pc = "move" /\ person = k
                   /\ hypot2(p.target_food[1] - p.x, p.target_food[2] - p.y) < 4]_vars

C16_Witness ==
    /\ pc = "count" /\ last_move.kind = "toward"
    /\ population[person].target_food = food_items[2]
    /\ food_items[1] # food_items[2]


\* C17: in the infection checks a person's status changes only to infected, and
\* only in the check of a pair it belongs to whose distance is below
\* INFECTION_RADIUS, whose one draw succeeded and whose other person is
\* infected when the pair is checked; a pair too far apart or whose draw fails
\* changes nobody; the checks never change a position, a velocity, a stuck
\* counter or a food target.
C17_ScanFrame ==
    [][pc = "scan" =>
          LET p1 == population[i]
              p2 == population[j]
              near == (p1.x - p2.x) * (p1.x - p2.x) + (p1.y - p2.y) * (p1.y - p2.y)
                          < INFECTION_RADIUS * INFECTION_RADIUS
          IN  /\ (~near \/ ~near_and_drawn') => population' = population
              /\ \A k \in People :
                    LET p == population[k]
                        q == population'[k]
                    IN  /\ q = [p EXCEPT !.status = q.status,
                                          !.time_infected = q.time_infected]
                        /\ q.status = p.status => q = p
                        /\ q.status # p.status =>
                              /\ q.status = "infected"
                              /\ near /\ near_and_drawn'
                              /\ \/ k = i /\ p2.status = "infected"
                                 \/ k = j /\ p1.status = "infected"]_vars

C17_Witness ==
    /\ POPULATION_SIZE = 3
    /\ near_and_drawn /\ i = 2 /\ j = 3 /\ pc = "begin"
    /\ infect_calls = << <<3, "healthy">>, <<2, "infected">> >>
    /\ population[3].status = "infected"


\* C18: in every step of the program a person's status stays or moves along
\* one of the edges healthy -> infected, infected -> recovered, infected -> dead
\* and, with reinfection allowed only, recovered -> infected; nothing leads back
\* to healthy, from healthy to recovered or dead, or out of dead; the status is
\* always one of the four values.
C18_StatusEdges ==
    /\ [](\A k \in People :
            population[k].status \in {"healthy", "infected", "recovered", "dead"})
    /\ [][\A k \in People :
            LET was == population[k].status
                is == population'[k].status
            IN  \/ is = was
                \/ was = "healthy" /\ is = "infected"
                \/ was = "infected" /\ is = "recovered"
                \/ was = "infected" /\ is = "dead"
                \/ was = "recovered" /\ is = "infected" /\ ALLOW_REINFECTION]_vars

C18_Witness ==
    /\ pc = "pick_food" /\ person = 2 /\ INITIAL_INFECTED = 1
    /\ population[2].status = "dead"
    /\ population[1].status = "recovered"


\* C19: the number of healthy persons never increases and the number of dead
\* persons never decreases, in any step and so from one iteration to the next,
\* for either value of the reinfection toggle; the healthy and dead counts an
\* iteration reports are those numbers as they were when its infection checks
\* began.
C19_HealthyDownDeadUp ==
    /\ []((tick > 0 /\ pc \in {"scan", "begin"})
            => /\ healthy_count = Census(scan_start, "healthy")
               /\ dead_count = Census(scan_start, "dead"))
    /\ [][/\ Census([k \in People |-> population'[k].status], "healthy")
               <= Census(Statuses_now, "healthy")
           /\ Census([k \in People |-> population'[k].status], "dead")
               >= Census(Statuses_now, "dead")]_vars

C19_Witness ==
    /\ pc = "begin" /\ tick = 2 /\ INITIAL_INFECTED = 1
    /\ healthy_count = 0 /\ dead_count = 1
    /\ Census(Statuses_now, "healthy") = 0
    /\ Census(Statuses_now, "dead") = 1


\* C20: the infection checks read the statuses as they are when a pair is
\* checked, not as they were when the checks began: a person infected earlier
\* in the same pass infects the healthy person of a later close pair whose draw
\* succeeds, and a pair neither of whose persons is infected at that moment
\* changes nobody, whoever is infected later in the pass; so an infection can
\* pass along a chain within one iteration, in the order of the pairs only.
C20_LiveStatuses ==
    [][pc = "scan" =>
          LET p1 == population[i]
              p2 == population[j]
          IN  /\ (/\ near_and_drawn'
                  /\ scan_start[i] # "infected" /\ p1.status = "infected"
                  /\ p2.status = "healthy")
                    => population'[j].status = "infected"
              /\ (/\ near_and_drawn'
                  /\ scan_start[j] # "infected" /\ p2.status = "infected"
                  /\ p1.status = "healthy")
                    => population'[i].status = "infected"
              /\ (p1.status # "infected" /\ p2.status # "infected")
                    => population' = population]_vars

\* The third person, close to nobody infected when the checks began, was
\* infected by the second, itself infected in the same pass.
C20_Witness ==
    /\ pc = "begin" /\ i = 2 /\ j = 3
    /\ scan_start = <<"infected", "healthy", "healthy">>
    /\ ~close_enough(population[1], population[3])
    /\ population[2].status = "infected" /\ population[2].time_infected = 0
    /\ population[3].status = "infected" /\ population[3].time_infected = 0

====
